---- MODULE Spec2Model ----
(***************************************************************************)
(* A model of the Dynite client (src/src/dynite/client.py): construction   *)
(* (__init__ and its validators), the URL builder (_build_url), the        *)
(* Transport (_get under the mounted urllib3 Retry policy), the count      *)
(* fetcher (_get_record_count) and the paginator (get_records).            *)
(*                                                                         *)
(* Strings are sequences of tokens (a token is a short string such as "/", *)
(* "e" or "$count"); the empty string is the empty sequence.  The server   *)
(* is the environment: the answer to each attempt and the body of each     *)
(* delivered response are chosen when the client reads them.               *)
(***************************************************************************)
EXTENDS Integers, Sequences, FiniteSets, TLC

VARIABLES
    args,           \* the arguments the constructor was called with
    base_url,       \* self.base_url
    auth,           \* self.session.auth
    timeout,        \* self._timeout
    max_retries,    \* retries after its validation: Retry.total of retry_strategy
    mounted,        \* self.session.adapters: the retry policy mounted on each prefix
    reused,         \* the call in progress or last finished was not the instance's first
    get_count_arg,      \* the get_count flag of the latest _build_url
    pc,             \* position of the calling thread
    op,             \* the public operation in progress or last finished
    endpoint,       \* argument of the operation
    params,         \* argument of the operation
    url,            \* the URL handed to _get
    attempts,       \* attempts made on the wire by the _get in progress or unconsumed
    forcedOnly,     \* every one of these attempts was answered with a forcelist status
    transport,      \* how that _get ended (a response not yet parsed, or a failure)
    total_records,  \* get_records: the count retrieved up front
    records,        \* get_records: the accumulator
    result,         \* what the caller of the operation observes
    log,            \* the URLs handed to _get during this operation, in order
    count_body,     \* << body >> of the count response the operation ended on, else << >>
    served,         \* the page bodies delivered to get_records during this operation
    next_link,      \* get_records: the latest return value of _get_next_page_link
    get_timeout_arg \* the timeout keyword of the latest session.get, 0 before the first

vars == << args, base_url, auth, timeout, max_retries, mounted, reused, get_count_arg,
           pc, op, endpoint, params, url, attempts, forcedOnly, transport,
           total_records, records, result, log, count_body, served, next_link,
           get_timeout_arg >>

config == << base_url, auth, timeout, max_retries, mounted >>

----------------------------------------------------------------------------
(* Bounds of the model. *)

MaxPages == 2        \* longest chain of pages the server serves to one call
MaxBodyLen == 2      \* longest count body, in characters
MaxRetriesArg == 1   \* largest retries argument given to the constructor
MaxTimeoutArg == 1   \* largest timeout argument, in absolute value
MaxUrlLen == 4       \* longest base URL argument, in tokens
MaxEndpointLen == 3  \* longest endpoint given to _build_url, in tokens

----------------------------------------------------------------------------
(* Construction: client.py __init__. *)

DefaultTimeout == 30
DefaultRetries == 3

\* a slip: only a negative timeout is replaced
ValidateTimeoutNegative(t) == IF t < 0 THEN DefaultTimeout ELSE t

\* _validate_timeout
ValidateTimeout(t) == IF t <= 0 THEN DefaultTimeout ELSE t

MountAdapters(retries) == IF retries < 0 THEN DefaultRetries ELSE retries

StatusForcelist == {429, 500, 502, 503, 504}

BaseUrl == << "https://", "h", "/", "odata" >>

TimeoutArgs == {0, 5}
RetriesArgs == (-1) .. MaxRetriesArg

----------------------------------------------------------------------------
(* Strings. *)

\* a slip: a single leading character of the set is removed
LStripOne(s, chars) == IF s # << >> /\ Head(s) \in chars THEN Tail(s) ELSE s

RECURSIVE LStrip(_, _)
\* str.lstrip(chars): every leading character of the set is removed
LStrip(s, chars) ==
    IF s # << >> /\ Head(s) \in chars THEN LStrip(Tail(s), chars) ELSE s

RECURSIVE RStrip(_, _)
\* str.rstrip(chars)
RStrip(s, chars) ==
    IF s # << >> /\ s[Len(s)] \in chars
    THEN RStrip(SubSeq(s, 1, Len(s) - 1), chars)
    ELSE s

\* a Python value is falsy when it is None, "" or an empty container
Truthy(s) == s # << >>

----------------------------------------------------------------------------
(* URL Builder: client.py _build_url. *)

\* urllib.parse.quote_plus on one token of a key or a value
QuotePlus(tok) ==
    CASE tok = " " -> "+"
      [] tok = "$" -> "%24"
      [] tok = "&" -> "%26"
      [] tok = "=" -> "%3D"
      [] tok = "/" -> "%2F"
      [] tok = "?" -> "%3F"
      [] OTHER -> tok

QuoteStr(s) == [i \in 1 .. Len(s) |-> QuotePlus(s[i])]

RECURSIVE UrlEncode(_)
\* urllib.parse.urlencode of the items of params, in the dict's order
UrlEncode(ps) ==
    IF ps = << >> THEN << >>
    ELSE LET item == QuoteStr(Head(ps)[1]) \o << "=" >> \o QuoteStr(Head(ps)[2])
         IN  IF Len(ps) = 1 THEN item
             ELSE item \o << "&" >> \o UrlEncode(Tail(ps))

\* a slip: the query string is appended before the $count segment
BuildUrlQueryFirst(e, ps, get_count) ==
    LET u1 == base_url \o << "/" >> \o LStrip(e, {"/"})
        u2 == IF Truthy(ps) THEN u1 \o << "?" >> \o UrlEncode(ps) ELSE u1
    IN  IF get_count THEN u2 \o << "/", "$count" >> ELSE u2

\* _build_url
BuildUrl(e, ps, get_count) ==
    LET u1 == base_url \o << "/" >> \o LStrip(e, {"/"})
        u2 == IF get_count THEN u1 \o << "/", "$count" >> ELSE u1
    IN  IF Truthy(ps) THEN u2 \o << "?" >> \o UrlEncode(ps) ELSE u2

----------------------------------------------------------------------------
(* Transport: client.py _get, under the Retry policy of _mount_adapters.    *)
(* One attempt on the wire is answered with a status or ends in a           *)
(* connection error or a timeout.  A status is the final one of its         *)
(* attempt: redirects followed by the session are not modelled, and neither *)
(* are the backoff delays between attempts.                                 *)

Statuses == {200, 304, 404, 429, 500, 501}

Answers ==
    [kind : {"status"}, code : Statuses]
        \cup [kind : {"ConnectionError", "Timeout"}, code : {0}]

\* session.get_adapter(url): the policy mounted on the prefix the URL starts with
Adapter(u) == mounted[Head(u)]

\* a slip: one retry more than the budget allows
ExhaustedLate(n, total) == total - n < -1

\* urllib3 Retry.increment / is_exhausted: after the n-th failed attempt the
\* budget has dropped from total to total - n, and is exhausted below 0
Exhausted(n, total) == total - n < 0

\* a slip: only server errors are treated as failures
RaiseForServerErrors(code) == 500 <= code /\ code < 600

\* requests.Response.raise_for_status raises HTTPError for 4xx and 5xx
RaiseForStatus(code) == 400 <= code /\ code < 600

\* a slip: every error status is retried, not only the forcelist
RetryableAnyError(ans) == ans.kind # "status" \/ ans.code >= 400

\* the attempt is one the policy retries: a forcelist status, or an error
Retryable(ans) == ans.kind # "status" \/ ans.code \in Adapter(url).status_forcelist

NoTransport == [kind |-> "none", status |-> 0, cause |-> "none"]
Delivered(code) == [kind |-> "response", status |-> code, cause |-> "none"]
Failed(code, cause) == [kind |-> "failed", status |-> code, cause |-> cause]

\* a slip: a response obtained after a retry is reported as a failure
GetOutcomeRemembersFailure(ans, n) ==
    IF Retryable(ans)
    THEN IF Exhausted(n, Adapter(url).total)
         THEN Failed(ans.code, IF ans.kind = "status" THEN "RetryError" ELSE ans.kind)
         ELSE [kind |-> "retry", status |-> ans.code, cause |-> "none"]
    ELSE IF RaiseForStatus(ans.code)
         THEN Failed(ans.code, "HTTPError")
         ELSE IF n > 1 THEN Failed(ans.code, "RetryError") ELSE Delivered(ans.code)

\* how _get ends on answer ans to attempt number n, or that it tries again
GetOutcome(ans, n) ==
    IF Retryable(ans)
    THEN IF Exhausted(n, Adapter(url).total)
         THEN Failed(ans.code, IF ans.kind = "status" THEN "RetryError" ELSE ans.kind)
         ELSE [kind |-> "retry", status |-> ans.code, cause |-> "none"]
    ELSE IF RaiseForStatus(ans.code)
         THEN Failed(ans.code, "HTTPError")
         ELSE Delivered(ans.code)

----------------------------------------------------------------------------
(* What the caller observes. *)

NoResult ==
    [kind |-> "pending", error |-> "none", cause |-> "none", count |-> -1, records |-> << >>]

\* an exception leaves the operation: nothing is returned
Raised(error, cause) ==
    [kind |-> "raised", error |-> error, cause |-> cause, count |-> -1, records |-> << >>]

ReturnedCount(n) ==
    [kind |-> "returned", error |-> "none", cause |-> "none", count |-> n, records |-> << >>]

ReturnedRecords(recs) ==
    [kind |-> "returned", error |-> "none", cause |-> "none", count |-> -1, records |-> recs]

\* _get: except RequestException as e: raise FailedRequestError(msg) from e
RequestFailed(cause) == Raised("FailedRequestError", cause)

\* a slip: FailedRequestError is declared a kind of InvalidResponseError
BasesChained ==
    [DyniteError |-> "Exception",
     InvalidURLError |-> "DyniteError",
     InvalidResponseError |-> "DyniteError",
     FailedRequestError |-> "InvalidResponseError",
     Exception |-> "BaseException",
     ValueError |-> "Exception",
     UnicodeDecodeError |-> "ValueError",
     JSONDecodeError |-> "ValueError",
     AttributeError |-> "Exception",
     TypeError |-> "Exception"]

\* the base class of each exception class: exceptions.py, and the built-in
\* classes of the exceptions the operations let through
Bases ==
    [DyniteError |-> "Exception",
     InvalidURLError |-> "DyniteError",
     InvalidResponseError |-> "DyniteError",
     FailedRequestError |-> "DyniteError",
     Exception |-> "BaseException",
     ValueError |-> "Exception",
     UnicodeDecodeError |-> "ValueError",
     JSONDecodeError |-> "ValueError",
     AttributeError |-> "Exception",
     TypeError |-> "Exception"]

RECURSIVE IsSubclass(_, _)
\* issubclass(c, h)
IsSubclass(c, h) ==
    \/ c = h
    \/ c \in DOMAIN Bases /\ IsSubclass(Bases[c], h)

\* "except h:" catches an exception of class c
Catches(h, c) == IsSubclass(c, h)

----------------------------------------------------------------------------
(* Count Fetcher: client.py _get_record_count, the body of the response.    *)
(* A body is a sequence of units: a unit is the encoding of one character,  *)
(* or "BAD", a byte that is not valid UTF-8.                                *)

AsciiDigits == {"0", "4"}
ArabicIndicDigits == {"ar4"}     \* U+0664, category Nd: a decimal digit
SuperscriptDigits == {"sup2"}    \* U+00B2, category No: a digit, not a decimal
Whitespace == {" "}

CountUnits ==
    AsciiDigits \cup ArabicIndicDigits \cup SuperscriptDigits \cup Whitespace
        \cup {"BOM", "x", "-", "BAD"}

RECURSIVE SeqsUpTo(_, _)
SeqsUpTo(S, n) ==
    IF n = 0 THEN {<< >>}
    ELSE LET shorter == SeqsUpTo(S, n - 1)
         IN  shorter \cup {Append(s, x) : s \in {t \in shorter : Len(t) = n - 1}, x \in S}

CountBodies == SeqsUpTo(CountUnits, MaxBodyLen)

\* bytes.decode("utf-8-sig") succeeds
Decodable(body) == \A i \in 1 .. Len(body) : body[i] # "BAD"

\* a slip: decode("utf-8") keeps the byte-order mark
DecodeUtf8(body) == body

\* bytes.decode("utf-8-sig"): one leading byte-order mark is dropped
DecodeUtf8Sig(body) ==
    IF body # << >> /\ Head(body) = "BOM" THEN Tail(body) ELSE body

\* str.strip()
Strip(s) == RStrip(LStrip(s, Whitespace), Whitespace)

\* str.isdigit(): non-empty, every character has the Unicode digit property
IsDigit(s) ==
    /\ s # << >>
    /\ \A i \in 1 .. Len(s) :
           s[i] \in AsciiDigits \cup ArabicIndicDigits \cup SuperscriptDigits

\* int(str) accepts the text: here, every character is a Unicode decimal
IntAccepts(s) ==
    /\ s # << >>
    /\ \A i \in 1 .. Len(s) : s[i] \in AsciiDigits \cup ArabicIndicDigits

DigitValue(c) ==
    CASE c = "0" -> 0
      [] c = "4" -> 4
      [] c = "ar4" -> 4
      [] OTHER -> 0

RECURSIVE IntOf(_)
\* int(str) of a text of decimals, base 10
IntOf(s) ==
    IF s = << >> THEN 0
    ELSE 10 * IntOf(SubSeq(s, 1, Len(s) - 1)) + DigitValue(s[Len(s)])

\* what _get_record_count does with the body of a delivered response
CountOutcome(body) ==
    IF ~Decodable(body) THEN Raised("UnicodeDecodeError", "none")
    ELSE LET clean_text == Strip(DecodeUtf8Sig(body))
         IN  IF ~IsDigit(clean_text) THEN Raised("InvalidResponseError", "none")
             ELSE IF ~IntAccepts(clean_text) THEN Raised("ValueError", "none")
             ELSE ReturnedCount(IntOf(clean_text))

----------------------------------------------------------------------------
(* Paginator: client.py get_records, the body of a page response.           *)

\* the arrays a page delivers: records are opaque JSON objects, here 1 and 2
PageValues == {<< >>, << 1 >>, << 1, 2 >>}

NextLinks ==
    { << "https://", "h", "/", "odata", "/", "e", "?", "$skip=3" >>,
      << "https://", "other", "/", "e" >> }

\* the "value" field: absent, an array of records, or null (extend(None)
\* raises TypeError)
ValueFields ==
    [present : {FALSE}, array : {FALSE}, items : {<< >>}]
        \cup [present : {TRUE}, array : {TRUE}, items : PageValues]
        \cup [present : {TRUE}, array : {FALSE}, items : {<< >>}]

\* the "@odata.nextLink" field: absent, the empty string, or a URL
LinkFields ==
    [present : {FALSE}, val : {<< >>}]
        \cup [present : {TRUE}, val : {<< >>} \cup NextLinks]

NoValue == [present |-> FALSE, array |-> FALSE, items |-> << >>]
NoLink == [present |-> FALSE, val |-> << >>]

\* a body: not JSON, JSON that is not an object, or a JSON object
PageBodies ==
    [json : {"invalid", "nonobject"}, value : {NoValue}, link : {NoLink}]
        \cup [json : {"object"}, value : ValueFields, link : LinkFields]

\* a value of type str | None is << >> for None and << s >> for the string s
None == << >>

\* a slip: the link is returned whenever the field is there (is not None)
GetNextPageLinkIfPresent(body) ==
    IF body.link.present THEN << body.link.val >> ELSE None

\* _get_next_page_link: str(next_link) if next_link else None; the field is a
\* JSON string, which str() returns as it is
GetNextPageLink(body) ==
    IF body.link.present /\ Truthy(body.link.val) THEN << body.link.val >> ELSE None

\* a slip: a body without the value field is taken as one record
GetValueOrBody(body) == IF body.value.present THEN body.value.items ELSE << 0 >>

\* json_response.get("value", [])
GetValue(body) == IF body.value.present THEN body.value.items ELSE << >>

\* a slip: records = json_response.get("value", []) instead of extending
ExtendReplaces(recs, items) == items

\* records.extend(...)
Extend(recs, items) == recs \o items

\* a slip: the JSONDecodeError is not caught and leaves get_records as it is
InvalidJsonUncaught == Raised("JSONDecodeError", "none")

\* get_records: except JSONDecodeError as e: raise InvalidResponseError(msg) from e
InvalidJson == Raised("InvalidResponseError", "JSONDecodeError")

\* a slip: the loop swallows the exception and returns what it has accumulated
GetRecordsReturnsPartial(exc, recs) == ReturnedRecords(recs)

\* get_records: an exception raised inside the loop propagates to the caller,
\* whatever has been accumulated
GetRecordsAbort(exc, recs) == exc

\* a slip: the count is used as a loop bound
LoopEndsAtCount(link, recs, total) ==
    ~(link # None /\ Truthy(link[1])) \/ Len(recs) >= total

\* get_records: if not next_link: break
LoopEnds(link, recs, total) == ~(link # None /\ Truthy(link[1]))

\* a slip: the caller's params are appended to the next link again
NextUrlWithParams(link, ps) ==
    IF Truthy(ps) THEN link[1] \o << "&" >> \o UrlEncode(ps) ELSE link[1]

\* get_records: url = next_link
NextUrl(link, ps) == link[1]

\* the server ends the chain with this page
ChainEnds(body) == ~(body.link.present /\ Truthy(body.link.val))

----------------------------------------------------------------------------
(* Construction, continued: client.py _validate_url and __init__. *)

\* the prefixes _validate_url accepts
HttpPrefixes == {"http://", "https://"}

\* tokens that carry a scheme: they open a URL, after whitespace at most
SchemeTokens == HttpPrefixes \cup {"ftp://"}

\* a port, written with its colon
PortTokens == {":80"}

\* "h" stands for the characters of a host name or of a path segment
UrlTokens == SchemeTokens \cup PortTokens \cup Whitespace \cup {"h", "/"}

\* str.startswith(tuple of prefixes)
StartsWith(s, prefixes) == s # << >> /\ Head(s) \in prefixes

RECURSIVE Before(_, _)
\* the part of s before its first token of the set
Before(s, stops) ==
    IF s = << >> \/ Head(s) \in stops THEN << >>
    ELSE << Head(s) >> \o Before(Tail(s), stops)

\* urlparse(url).netloc of a URL that starts with "http://" or "https://":
\* what follows the "//" up to the first "/", "?" or "#"
Netloc(u) == Before(Tail(u), {"/", "?", "#"})

InvalidUrl == [ok |-> FALSE, url |-> << >>]
ValidUrl(u) == [ok |-> TRUE, url |-> u]

\* a slip: a single trailing slash is removed
ValidateUrlOneSlash(u) ==
    LET stripped == Strip(u)
    IN  IF ~StartsWith(stripped, HttpPrefixes) THEN InvalidUrl
        ELSE IF ~Truthy(Netloc(stripped)) THEN InvalidUrl
        ELSE IF stripped[Len(stripped)] = "/"
        THEN ValidUrl(SubSeq(stripped, 1, Len(stripped) - 1))
        ELSE ValidUrl(stripped)

\* _validate_url: the stored URL, or that InvalidURLError is raised
ValidateUrl(u) ==
    LET stripped == Strip(u)
    IN  IF ~StartsWith(stripped, HttpPrefixes) THEN InvalidUrl
        ELSE IF ~Truthy(Netloc(stripped)) THEN InvalidUrl
        ELSE ValidUrl(RStrip(stripped, {"/"}))

BackoffFactor == 1

\* Retry(total=retries, status_forcelist=[...], backoff_factor=1)
RetryStrategy(retries) ==
    [total |-> retries, status_forcelist |-> StatusForcelist,
     backoff_factor |-> BackoffFactor]

\* the policy of the adapters a new requests.Session carries
SessionDefaultPolicy == [total |-> 0, status_forcelist |-> {}, backoff_factor |-> 0]

\* a slip: the policy is mounted for https:// only
MountedHttpsOnly(retries) ==
    [p \in HttpPrefixes |->
        IF p = "https://" THEN RetryStrategy(MountAdapters(retries))
        ELSE SessionDefaultPolicy]

\* _mount_adapters: one retry_strategy, mounted for "http://" and for "https://"
Mounted(retries) ==
    LET retry_strategy == RetryStrategy(MountAdapters(retries))
    IN  [p \in HttpPrefixes |-> retry_strategy]

\* the defaults of the parameters timeout and retries of __init__
OmittedTimeout == 30
OmittedRetries == 3

\* before construction there is no client
NoClient ==
    [base_url |-> << >>, auth |-> << >>, timeout |-> 0, max_retries |-> 0,
     mounted |-> [p \in HttpPrefixes |-> SessionDefaultPolicy]]

\* the attributes __init__ sets, given arguments whose base URL is accepted
NewClient(a) ==
    [base_url |-> ValidateUrl(a.base_url).url,
     auth |-> a.auth,
     timeout |-> ValidateTimeout(a.timeout),
     max_retries |-> MountAdapters(a.retries),
     mounted |-> Mounted(a.retries)]

AuthArgs == {<< "user", "pass" >>}

\* base URLs: a scheme token opens the URL, after whitespace at most
UrlArgs ==
    {u \in SeqsUpTo(UrlTokens, MaxUrlLen) :
        \A i \in 1 .. Len(u) :
            u[i] \in SchemeTokens => \A j \in 1 .. (i - 1) : u[j] \in Whitespace}

TimeoutArgsAll == ((0 - MaxTimeoutArg) .. MaxTimeoutArg) \cup {OmittedTimeout}
RetriesArgsAll == ((0 - MaxRetriesArg - 1) .. MaxRetriesArg) \cup {OmittedRetries}

\* no argument has been given to an operation
NoArguments ==
    /\ endpoint = << >>
    /\ params = << >>
    /\ get_count_arg = FALSE

\* no operation has been called
NoCall ==
    /\ op = "none"
    /\ url = << >>
    /\ attempts = 0
    /\ forcedOnly = TRUE
    /\ transport = NoTransport
    /\ total_records = -1
    /\ records = << >>
    /\ result = NoResult
    /\ log = << >>
    /\ count_body = << >>
    /\ served = << >>
    /\ next_link = None
    /\ get_timeout_arg = 0
    /\ reused = FALSE

\* the constructor is about to run on its arguments
InitConstruct ==
    /\ args \in [base_url : UrlArgs, auth : AuthArgs,
                  timeout : TimeoutArgsAll, retries : RetriesArgsAll]
    /\ base_url = NoClient.base_url
    /\ auth = NoClient.auth
    /\ timeout = NoClient.timeout
    /\ max_retries = NoClient.max_retries
    /\ mounted = NoClient.mounted
    /\ pc = "new"
    /\ NoArguments
    /\ NoCall

\* __init__
Construct ==
    /\ pc = "new"
    /\ IF ~ValidateUrl(args.base_url).ok
       THEN /\ pc' = "invalid"
            /\ result' = Raised("InvalidURLError", "none")
            /\ UNCHANGED config
       ELSE /\ pc' = "idle"
            /\ base_url' = NewClient(args).base_url
            /\ auth' = NewClient(args).auth
            /\ timeout' = NewClient(args).timeout
            /\ max_retries' = NewClient(args).max_retries
            /\ mounted' = NewClient(args).mounted
            /\ UNCHANGED result
    /\ UNCHANGED << args, reused, get_count_arg, op, endpoint, params, url, attempts,
                    forcedOnly, transport, total_records, records, log, count_body,
                    served, next_link, get_timeout_arg >>

SpecConstruct == InitConstruct /\ [][Construct]_vars

----------------------------------------------------------------------------
(* The state after construction. *)

\* the base URL the calls are modelled under
BaseUrlArgs == {BaseUrl \o << "/" >>}

EndpointArgs == {<< "e" >>, << "/", "e" >>}
\* params: the dict's items in order, each a pair of strings
ParamsArgs == {<< >>, << << << "$", "top" >>, << "1" >> >> >>}

Init ==
    /\ args \in [base_url : BaseUrlArgs, auth : AuthArgs,
                  timeout : TimeoutArgs, retries : RetriesArgs]
    /\ base_url = NewClient(args).base_url
    /\ auth = NewClient(args).auth
    /\ timeout = NewClient(args).timeout
    /\ max_retries = NewClient(args).max_retries
    /\ mounted = NewClient(args).mounted
    /\ pc = "idle"
    /\ NoArguments
    /\ NoCall

----------------------------------------------------------------------------
(* _build_url on its own: the arguments are drawn, the builder is applied, any  *)
(* number of times.                                                            *)

BuildBaseUrlArgs == BaseUrlArgs \cup {<< "http://", "h" >>}

\* endpoints: relative paths, "e" and "x" standing for the characters of a segment
EndpointsAll == SeqsUpTo({"/", "e", "x"}, MaxEndpointLen)

ParamTop == << << "$", "top" >>, << "1" >> >>
ParamFilter == << << "f" >>, << "a", " ", "b" >> >>
ParamsAll ==
    {<< >>, << ParamTop >>, << ParamTop, ParamFilter >>, << ParamFilter, ParamTop >>}

InitBuild ==
    /\ args \in [base_url : BuildBaseUrlArgs, auth : AuthArgs,
                  timeout : {OmittedTimeout}, retries : {OmittedRetries}]
    /\ base_url = NewClient(args).base_url
    /\ auth = NewClient(args).auth
    /\ timeout = NewClient(args).timeout
    /\ max_retries = NewClient(args).max_retries
    /\ mounted = NewClient(args).mounted
    /\ pc = "build"
    /\ endpoint \in EndpointsAll
    /\ params \in ParamsAll
    /\ get_count_arg \in BOOLEAN
    /\ NoCall

\* self._build_url(endpoint, params, get_count=get_count)
BuildUrlCall ==
    /\ pc \in {"build", "built"}
    /\ url' = BuildUrl(endpoint, params, get_count_arg)
    /\ pc' = "built"
    /\ UNCHANGED << args, config, reused, get_count_arg, op, endpoint, params, attempts,
                    forcedOnly, transport, total_records, records, result, log,
                    count_body, served, next_link, get_timeout_arg >>

SpecBuild == InitBuild /\ [][BuildUrlCall]_vars

----------------------------------------------------------------------------
(* The operations. *)

\* a slip: a call assigns the default to self._timeout
CallFrameResetsTimeout ==
    /\ timeout' = DefaultTimeout
    /\ UNCHANGED << args, base_url, auth, max_retries, mounted >>

\* no statement of get_records, _get_record_count, _get or _build_url assigns an
\* attribute of self or of the session
CallFrame == UNCHANGED << args, config >>

\* a slip: a call that failed leaves the session closed, and the next call fails
\* without a request
StartCallOnClosedSession(o, e, ps) ==
    /\ pc \in {"idle", "done"}
    /\ reused' = (pc = "done")
    /\ op' = o
    /\ endpoint' = e
    /\ params' = ps
    /\ get_count_arg' = TRUE
    /\ url' = BuildUrl(e, ps, TRUE)
    /\ log' = << url' >>
    /\ IF result.kind = "raised"
       THEN pc' = "done" /\ result' = RequestFailed("ConnectionError")
       ELSE pc' = "count_get" /\ result' = NoResult
    /\ attempts' = 0
    /\ forcedOnly' = TRUE
    /\ transport' = NoTransport
    /\ total_records' = -1
    /\ records' = << >>
    /\ count_body' = << >>
    /\ served' = << >>
    /\ next_link' = None
    /\ UNCHANGED get_timeout_arg
    /\ CallFrame

\* a slip: the count URL is built without the caller's params
StartCallCountWithoutParams(o, e, ps) ==
    /\ pc \in {"idle", "done"}
    /\ reused' = (pc = "done")
    /\ op' = o
    /\ endpoint' = e
    /\ params' = ps
    /\ get_count_arg' = TRUE
    /\ url' = BuildUrl(e, << >>, get_count_arg')
    /\ log' = << url' >>
    /\ pc' = "count_get"
    /\ attempts' = 0
    /\ forcedOnly' = TRUE
    /\ transport' = NoTransport
    /\ total_records' = -1
    /\ records' = << >>
    /\ result' = NoResult
    /\ count_body' = << >>
    /\ served' = << >>
    /\ next_link' = None
    /\ UNCHANGED get_timeout_arg
    /\ CallFrame

\* the first statements of both operations: build the count URL, call _get;
\* the locals of the call are new
StartCall(o, e, ps) ==
    /\ pc \in {"idle", "done"}
    /\ reused' = (pc = "done")
    /\ op' = o
    /\ endpoint' = e
    /\ params' = ps
    /\ get_count_arg' = TRUE
    /\ url' = BuildUrl(e, ps, get_count_arg')
    /\ log' = << url' >>
    /\ pc' = "count_get"
    /\ attempts' = 0
    /\ forcedOnly' = TRUE
    /\ transport' = NoTransport
    /\ total_records' = -1
    /\ records' = << >>
    /\ result' = NoResult
    /\ count_body' = << >>
    /\ served' = << >>
    /\ next_link' = None
    /\ UNCHANGED get_timeout_arg
    /\ CallFrame

GetRecordCount ==
    \E e \in EndpointArgs, ps \in ParamsArgs : StartCall("get_record_count", e, ps)

\* a slip: get_records goes straight to its first page, without the count
GetRecordsWithoutCount ==
    /\ pc \in {"idle", "done"}
    /\ reused' = (pc = "done")
    /\ \E e \in EndpointArgs, ps \in ParamsArgs :
         /\ op' = "get_records"
         /\ endpoint' = e
         /\ params' = ps
         /\ url' = BuildUrl(e, ps, FALSE)
         /\ log' = << url' >>
    /\ get_count_arg' = FALSE
    /\ pc' = "page_get"
    /\ attempts' = 0
    /\ forcedOnly' = TRUE
    /\ transport' = NoTransport
    /\ total_records' = 0
    /\ records' = << >>
    /\ result' = NoResult
    /\ count_body' = << >>
    /\ served' = << >>
    /\ next_link' = None
    /\ UNCHANGED get_timeout_arg
    /\ CallFrame

\* a slip: the first page is requested together with the count
GetRecordsPipelined ==
    /\ pc \in {"idle", "done"}
    /\ reused' = (pc = "done")
    /\ \E e \in EndpointArgs, ps \in ParamsArgs :
         /\ op' = "get_records"
         /\ endpoint' = e
         /\ params' = ps
         /\ url' = BuildUrl(e, ps, TRUE)
         /\ log' = << url', BuildUrl(e, ps, FALSE) >>
    /\ get_count_arg' = TRUE
    /\ pc' = "count_get"
    /\ attempts' = 0
    /\ forcedOnly' = TRUE
    /\ transport' = NoTransport
    /\ total_records' = -1
    /\ records' = << >>
    /\ result' = NoResult
    /\ count_body' = << >>
    /\ served' = << >>
    /\ next_link' = None
    /\ UNCHANGED get_timeout_arg
    /\ CallFrame

\* get_records: its first statement is the count
GetRecords ==
    \E e \in EndpointArgs, ps \in ParamsArgs : StartCall("get_records", e, ps)

\* a slip: the failure is swallowed and the thread waits for a response for ever
AfterFailureWaits(p) == "waiting"

\* a slip: the operation hands the URL to _get again when _get has failed
AfterFailureTryAgain(p) == p

\* where the calling thread is once _get has raised FailedRequestError at p: no
\* caller of _get handles it, the operation is left
AfterFailure(p) == "done"

\* a slip: session.get(url, timeout=30)
GetTimeoutHardCoded == DefaultTimeout

\* the timeout keyword of session.get(url, timeout=self._timeout)
GetTimeout == timeout

\* one attempt of session.get(url, timeout=self._timeout) is answered
Attempt ==
    /\ pc \in {"count_get", "page_get"}
    /\ get_timeout_arg' = GetTimeout
    /\ \E ans \in Answers :
         LET n == attempts + 1
             out == GetOutcome(ans, n)
         IN  /\ attempts' = n
             /\ forcedOnly' = (forcedOnly /\ ans.kind = "status" /\ ans.code \in StatusForcelist)
             /\ transport' = out
             /\ IF out.kind = "retry"
                THEN UNCHANGED << pc, result >>
                ELSE IF out.kind = "failed"
                THEN /\ pc' = AfterFailure(pc)
                     /\ result' = IF pc = "page_get"
                                  THEN GetRecordsAbort(RequestFailed(out.cause), records)
                                  ELSE RequestFailed(out.cause)
                ELSE /\ pc' = IF pc = "count_get" THEN "count_parse" ELSE "page_parse"
                     /\ UNCHANGED result
    /\ CallFrame
    /\ UNCHANGED << reused, get_count_arg, op, endpoint, params, url, total_records,
                    records, log, count_body, served, next_link >>

\* a slip: get_records only logs a count that could not be parsed and goes on
CountEndsCountOnly(out, o) == o = "get_record_count"

\* the operation ends with the count: get_record_count returns it, and an
\* exception of _get_record_count leaves get_records too
CountEnds(out, o) == out.kind = "raised" \/ o = "get_record_count"

\* _get_record_count after _get returned; get_records goes on to its first page
ParseCount ==
    /\ pc = "count_parse"
    /\ \E body \in CountBodies :
         LET out == CountOutcome(body)
         IN  IF CountEnds(out, op)
             THEN /\ result' = out
                  /\ pc' = "done"
                  /\ count_body' = << body >>
                  /\ UNCHANGED << url, log, total_records, get_count_arg >>
             ELSE /\ total_records' = out.count
                  /\ count_body' = << >>
                  /\ get_count_arg' = FALSE
                  /\ url' = BuildUrl(endpoint, params, get_count_arg')
                  /\ log' = Append(log, url')
                  /\ pc' = "page_get"
                  /\ UNCHANGED result
    /\ attempts' = 0
    /\ forcedOnly' = TRUE
    /\ transport' = NoTransport
    /\ records' = << >>
    /\ CallFrame
    /\ UNCHANGED << reused, op, endpoint, params, served, next_link, get_timeout_arg >>

\* one iteration of the loop of get_records after _get returned
ParsePage ==
    /\ pc = "page_parse"
    /\ \E body \in PageBodies :
         /\ Len(served) + 1 >= MaxPages => ChainEnds(body)
         /\ served' = Append(served, body)
         /\ IF body.json = "invalid"
            THEN /\ result' = GetRecordsAbort(InvalidJson, records)
                 /\ pc' = "done"
                 /\ UNCHANGED << url, log, records, next_link >>
            ELSE IF body.json = "nonobject"
            THEN /\ result' = GetRecordsAbort(Raised("AttributeError", "none"), records)
                 /\ pc' = "done"
                 /\ UNCHANGED << url, log, records, next_link >>
            ELSE IF body.value.present /\ ~body.value.array
            THEN /\ result' = GetRecordsAbort(Raised("TypeError", "none"), records)
                 /\ pc' = "done"
                 /\ UNCHANGED << url, log, records, next_link >>
            ELSE LET recs == Extend(records, GetValue(body))
                 IN  /\ records' = recs
                     /\ next_link' = GetNextPageLink(body)
                     /\ IF LoopEnds(next_link', recs, total_records)
                        THEN /\ result' = ReturnedRecords(recs)
                             /\ pc' = "done"
                             /\ UNCHANGED << url, log >>
                        ELSE /\ url' = NextUrl(next_link', params)
                             /\ log' = Append(log, url')
                             /\ pc' = "page_get"
                             /\ UNCHANGED result
    /\ attempts' = 0
    /\ forcedOnly' = TRUE
    /\ transport' = NoTransport
    /\ CallFrame
    /\ UNCHANGED << reused, get_count_arg, op, endpoint, params, total_records,
                    count_body, get_timeout_arg >>

Next ==
    \/ GetRecordCount
    \/ GetRecords
    \/ Attempt
    \/ ParseCount
    \/ ParsePage

Spec == Init /\ [][Next]_vars

\* one client, constructed with the largest retries
InitLive ==
    /\ Init
    /\ args.timeout = 0
    /\ args.retries = MaxRetriesArg

\* every request eventually completes, and a response received is parsed: the
\* calling thread is never suspended for ever
SpecLive ==
    InitLive /\ [][Next]_vars
        /\ WF_vars(Attempt) /\ WF_vars(ParseCount) /\ WF_vars(ParsePage)

----------------------------------------------------------------------------
(* Properties. *)

\* the page is a JSON object whose value field, if any, is an array
PageOk(b) == b.json = "object" /\ (b.value.present => b.value.array)

\* the page carries a next-page cursor
HasCursor(b) == b.link.present /\ b.link.val # << >>

\* value(P)
ValueOf(b) == IF b.value.present THEN b.value.items ELSE << >>

RECURSIVE Flatten(_)
\* value(P1) ++ value(P2) ++ ... ++ value(Pn)
Flatten(chain) ==
    IF chain = << >> THEN << >> ELSE ValueOf(Head(chain)) \o Flatten(Tail(chain))

\* P1..Pn: every page is well formed, each page but the last carries a cursor,
\* the last carries no next link
WellFormedChain(chain) ==
    /\ chain # << >>
    /\ \A i \in 1 .. Len(chain) :
           /\ PageOk(chain[i])
           /\ i < Len(chain) => HasCursor(chain[i])
    /\ ~chain[Len(chain)].link.present

\* C1: when get_records has been served a well-formed finite chain of pages and
\* no request failed, it returns exactly the concatenation of the pages' values,
\* in delivery order, nothing dropped, duplicated, de-duplicated or reordered.
C1_RecordsAreConcatenation ==
    (/\ op = "get_records"
     /\ pc = "done"
     /\ transport.kind # "failed"
     /\ WellFormedChain(served))
        => /\ result.kind = "returned"
           /\ result.records = Flatten(served)

\* a two-page chain whose second page repeats a record of the first
C1_Witness ==
    /\ op = "get_records"
    /\ pc = "done"
    /\ Len(served) = 2
    /\ WellFormedChain(served)
    /\ ValueOf(served[1]) = << 1, 2 >>
    /\ ValueOf(served[2]) = << 1 >>
    /\ result.records = << 1, 2, 1 >>

\* C2: when the Transport fails on the request for page k of get_records, the
\* call fails with Request Failed and the caller receives no records, whatever
\* pages 1..k-1 have accumulated.
C2_PageFailureReturnsNothing ==
    (/\ op = "get_records"
     /\ Len(log) >= 2
     /\ transport.kind = "failed")
        => /\ pc = "done"
           /\ result.kind = "raised"
           /\ result.error = "FailedRequestError"
           /\ result.records = << >>

\* the request for page 2 fails after page 1 delivered records
C2_Witness ==
    /\ op = "get_records"
    /\ Len(log) = 3
    /\ transport.kind = "failed"
    /\ records # << >>
    /\ result.kind = "raised"
    /\ result.error = "FailedRequestError"

\* C3: when the body of page k is not well-formed JSON, get_records fails at
\* once with Invalid Response: no further page is requested and no record is
\* returned, the records of pages 1..k-1 included.
C3_InvalidJsonAborts ==
    (/\ op = "get_records"
     /\ served # << >>
     /\ served[Len(served)].json = "invalid")
        => /\ pc = "done"
           /\ result.kind = "raised"
           /\ result.error = "InvalidResponseError"
           /\ result.records = << >>
           /\ Len(log) = Len(served) + 1

\* page 2 is not JSON after page 1 delivered records
C3_Witness ==
    /\ op = "get_records"
    /\ Len(served) = 2
    /\ served[2].json = "invalid"
    /\ records # << >>
    /\ result.error = "InvalidResponseError"

CleanLiteral(body) ==
    /\ \A i \in 1 .. Len(body) : body[i] # "BAD"
    /\ LET text == IF body # << >> /\ body[1] = "BOM" THEN Tail(body) ELSE body
           lead == {i \in 1 .. Len(text) : \A j \in 1 .. i : text[j] = " "}
           trail == {i \in 1 .. Len(text) : \A j \in i .. Len(text) : text[j] = " "}
           inner == {i \in 1 .. Len(text) : i \notin lead /\ i \notin trail}
       IN  /\ inner # {}
           /\ \A i \in inner : text[i] \in {"0", "4"}

\* C5: when the count response is delivered and its body is anything but a clean
\* non-negative decimal integer literal, the count fetch fails with Invalid
\* Response and returns no integer.
C5_UncleanCountIsInvalidResponse ==
    (/\ pc = "done"
     /\ count_body # << >>
     /\ ~CleanLiteral(count_body[1]))
        => /\ result.kind = "raised"
           /\ result.error = "InvalidResponseError"

\* the digits of a text, most significant first, as a number
RECURSIVE Denotes(_, _)
Denotes(text, acc) ==
    IF text = << >> THEN acc
    ELSE Denotes(Tail(text),
                 10 * acc + (IF Head(text) = "0" THEN 0 ELSE 4))

\* the text left after dropping one leading byte-order mark and the
\* surrounding whitespace
Trimmed(body) ==
    LET text == IF body # << >> /\ body[1] = "BOM" THEN Tail(body) ELSE body
        first == {i \in 1 .. Len(text) : text[i] # " "}
    IN  IF first = {} THEN << >>
        ELSE LET lo == CHOOSE i \in first : \A j \in first : i <= j
                 hi == CHOOSE i \in first : \A j \in first : i >= j
             IN  SubSeq(text, lo, hi)

\* C6: when the count request succeeds and its body, decoded, with one leading
\* byte-order mark removed and trimmed, consists only of decimal digits,
\* get_record_count returns the integer those digits denote.
C6_CountIsParsed ==
    (/\ op = "get_record_count"
     /\ pc = "done"
     /\ count_body # << >>
     /\ \A i \in 1 .. Len(count_body[1]) : count_body[1][i] # "BAD"
     /\ Trimmed(count_body[1]) # << >>
     /\ \A i \in 1 .. Len(Trimmed(count_body[1])) :
            Trimmed(count_body[1])[i] \in {"0", "4", "ar4"})
        => /\ result.kind = "returned"
           /\ result.count = Denotes(Trimmed(count_body[1]), 0)

\* a body made of a byte-order mark and the digit 4 gives 4
C6_Witness ==
    /\ op = "get_record_count"
    /\ pc = "done"
    /\ count_body = << << "BOM", "4" >> >>
    /\ result.kind = "returned"
    /\ result.count = 4

\* the cursors of the pages of a chain, in order
Cursors(chain) == [i \in 1 .. Len(chain) |-> chain[i].link.val]

\* C7: the count retrieved up front is no loop bound. Whatever integer the
\* count request returned, the page requests issued are the first page and then
\* the cursor of every page delivered so far, the accumulator is the
\* concatenation of their values, and get_records returns exactly when it has
\* parsed a page that carries no cursor.
C7_CountIsNotALoopBound ==
    (/\ op = "get_records"
     /\ total_records >= 0
     /\ \A i \in 1 .. Len(served) : PageOk(served[i]))
        => /\ records = Flatten(served)
           /\ \A i \in 1 .. Len(served) :
                  HasCursor(served[i]) <=> i + 2 <= Len(log)
           /\ \A i \in 3 .. Len(log) : log[i] = Cursors(served)[i - 2]
           /\ result.kind = "returned" <=>
                  (served # << >> /\ ~HasCursor(served[Len(served)]))
           /\ result.kind = "returned" => result.records = Flatten(served)

\* the count said 0 and two pages with three records were still fetched
C7_Witness ==
    /\ op = "get_records"
    /\ total_records = 0
    /\ Len(served) = 2
    /\ result.kind = "returned"
    /\ Len(result.records) = 3

\* the count URL and the first page URL of the call in progress
CountUrlOf(e, ps) ==
    LET name == IF Head(e) = "/" THEN Tail(e) ELSE e
        query == IF ps = << >> THEN << >> ELSE << "?", "%24", "top", "=", "1" >>
    IN  BaseUrl \o << "/" >> \o name \o << "/", "$count" >> \o query

FirstPageUrlOf(e, ps) ==
    LET name == IF Head(e) = "/" THEN Tail(e) ELSE e
        query == IF ps = << >> THEN << >> ELSE << "?", "%24", "top", "=", "1" >>
    IN  BaseUrl \o << "/" >> \o name \o query

C9_AttemptsWithinMaxRetries ==
    (attempts > 0 /\ forcedOnly) => attempts <= max_retries

\* C9, amended: when every attempt of a get is answered with a forcelist
\* status, the attempts made never exceed max_retries + 1 (the first attempt and
\* max_retries retries), and after exactly that many the get fails with Request
\* Failed.
C9_AttemptsWithinRetriesPlusOne ==
    (attempts > 0 /\ forcedOnly)
        => /\ attempts <= max_retries + 1
           /\ attempts = max_retries + 1 <=> transport.kind = "failed"
           /\ transport.kind = "failed" =>
                  /\ pc = "done"
                  /\ result.kind = "raised"
                  /\ result.error = "FailedRequestError"
                  /\ result.cause = "RetryError"

\* one retry allowed: the second 429/500 in a row ends the get
C9_Witness ==
    /\ max_retries = 1
    /\ attempts = 2
    /\ forcedOnly
    /\ transport.kind = "failed"
    /\ result.error = "FailedRequestError"

\* an error status outside the forcelist
NonRetryableError(code) ==
    code >= 400 /\ code \notin {429, 500, 502, 503, 504}

----------------------------------------------------------------------------
(* Properties of construction, under SpecConstruct. *)

\* the constructor has run on args
Constructed == pc \notin {"new", "invalid"}

\* the URL carries the scheme http or https
HasHttpScheme(u) == \E i \in 1 .. Len(u) : u[i] \in {"http://", "https://"}

\* the characters of the host of the URL: those between the scheme and the first
\* "/" that can belong to a host name
HostOf(u) ==
    LET first == CHOOSE i \in 1 .. Len(u) : u[i] \in {"http://", "https://"}
        stops == {i \in (first + 1) .. Len(u) : u[i] = "/"}
        last == IF stops = {} THEN Len(u)
                ELSE (CHOOSE i \in stops : \A j \in stops : i <= j) - 1
    IN  SelectSeq(SubSeq(u, first + 1, last), LAMBDA tok : tok = "h")

\* C11, as the specification states it: whenever the base URL given to the
\* constructor lacks the scheme http:// or https://, or lacks a host, then,
\* whatever the timeout and the retries, construction fails with InvalidURLError,
\* no client exists and no request has been issued.
C11_SchemelessOrHostlessRejected ==
    (pc # "new" /\ (~HasHttpScheme(args.base_url) \/ HostOf(args.base_url) = << >>))
        => /\ pc = "invalid"
           /\ result = Raised("InvalidURLError", "none")
           /\ config = << NoClient.base_url, NoClient.auth, NoClient.timeout,
                          NoClient.max_retries, NoClient.mounted >>
           /\ log = << >>

\* C12, as the specification states it: an accepted base URL that ends with a
\* slash is stored with that one slash removed, and an accepted base URL that does
\* not end with a slash is stored unchanged.
C12_OneTrailingSlashRemoved ==
    Constructed =>
        LET u == args.base_url
        IN  IF u[Len(u)] = "/"
            THEN base_url = SubSeq(u, 1, Len(u) - 1)
            ELSE base_url = u

\* s is u without the whitespace around it and then without the slashes that end it
TrimmedOfSlashes(s, u) ==
    \E i \in 1 .. Len(u), j \in 1 .. Len(u), k \in 1 .. Len(u) :
        /\ i <= j /\ j <= k
        /\ \A n \in 1 .. (i - 1) : u[n] = " "
        /\ u[i] # " "
        /\ \A n \in (k + 1) .. Len(u) : u[n] = " "
        /\ u[k] # " "
        /\ \A n \in (j + 1) .. k : u[n] = "/"
        /\ u[j] # "/"
        /\ s = SubSeq(u, i, j)

\* C12, amended: an accepted base URL is stored without the whitespace around it
\* and without any of the slashes that end it; so an accepted base URL without
\* surrounding whitespace is stored unchanged when it ends with no slash, and
\* without its last character when it ends with exactly one slash.
C12_WhitespaceAndTrailingSlashesRemoved ==
    Constructed =>
        LET u == args.base_url
        IN  /\ TrimmedOfSlashes(base_url, u)
            /\ (u[1] # " " /\ u[Len(u)] \notin {" ", "/"}) => base_url = u
            /\ (u[1] # " " /\ u[Len(u)] = "/" /\ u[Len(u) - 1] # "/")
                   => base_url = SubSeq(u, 1, Len(u) - 1)

\* an accepted base URL that ends with two slashes is stored without both
C12_Witness ==
    /\ Constructed
    /\ args.base_url = << "https://", "h", "/", "/" >>
    /\ base_url = << "https://", "h" >>

\* C13, as the specification states it: once construction has succeeded, the
\* stored base URL has the scheme http or https, a non-empty host and no trailing
\* slash, the effective timeout is positive and the effective retry count is not
\* negative.
C13_ConfigurationWellFormed ==
    Constructed =>
        /\ HasHttpScheme(base_url)
        /\ HostOf(base_url) # << >>
        /\ base_url[Len(base_url)] # "/"
        /\ timeout > 0
        /\ max_retries >= 0
        /\ \A p \in DOMAIN mounted : mounted[p].total >= 0

\* the base URL argument is a plain one, which the constructor accepts
PlainBaseUrl(u) == Len(u) >= 2 /\ u[1] \in {"http://", "https://"} /\ u[2] = "h"

----------------------------------------------------------------------------
(* Properties of the URL builder, under SpecBuild. *)

\* the endpoint from its first character that is not a slash
WithoutLeadingSlashes(e) ==
    LET named == {i \in 1 .. Len(e) : e[i] # "/"}
    IN  IF named = {} THEN << >>
        ELSE SubSeq(e, CHOOSE i \in named : \A j \in named : i <= j, Len(e))

\* C16: whatever was built before, the URL built from an endpoint, parameters and
\* a count flag is the URL built from the same arguments with a slash put before
\* the endpoint; it starts with the base URL and one slash, and when the endpoint
\* names anything what follows that slash is not a second slash.
C16_LeadingSlashIsIgnored ==
    pc = "built" =>
        LET n == Len(base_url)
        IN  /\ url = BuildUrl(<< "/" >> \o endpoint, params, get_count_arg)
            /\ Len(url) > n
            /\ SubSeq(url, 1, n) = base_url
            /\ base_url[n] # "/"
            /\ url[n + 1] = "/"
            /\ WithoutLeadingSlashes(endpoint) # << >> => url[n + 2] # "/"

\* a URL was built from an endpoint that starts with two slashes
C16_Witness ==
    /\ pc = "built"
    /\ endpoint = << "/", "/", "e" >>
    /\ get_count_arg
    /\ url = base_url \o << "/", "e", "/", "$count" >>

\* form encoding of one key or value
FormQuote(s) ==
    [i \in 1 .. Len(s) |-> IF s[i] = " " THEN "+" ELSE IF s[i] = "$" THEN "%24" ELSE s[i]]

\* the form-encoded parameters from the k-th on: key=value pairs joined by "&"
RECURSIVE FormEncodeFrom(_, _)
FormEncodeFrom(ps, k) ==
    IF k > Len(ps) THEN << >>
    ELSE (IF k > 1 THEN << "&" >> ELSE << >>)
             \o FormQuote(ps[k][1]) \o << "=" >> \o FormQuote(ps[k][2])
             \o FormEncodeFrom(ps, k + 1)

\* the positions of the URL that hold the token
PositionsOf(tok, u) == {i \in 1 .. Len(u) : u[i] = tok}

\* C17: the URL built is the base URL, a slash and the endpoint (without its
\* leading slashes), then the segment /$count exactly when the count flag is set,
\* then "?" and the form-encoded parameters in the caller's order exactly when
\* there are parameters; without parameters the URL holds no "?", and $count
\* comes before the "?".
C17_UrlShape ==
    pc = "built" =>
        /\ url = base_url \o << "/" >> \o WithoutLeadingSlashes(endpoint)
                    \o (IF get_count_arg THEN << "/", "$count" >> ELSE << >>)
                    \o (IF params # << >>
                        THEN << "?" >> \o FormEncodeFrom(params, 1)
                        ELSE << >>)
        /\ (PositionsOf("$count", url) # {}) <=> get_count_arg
        /\ (PositionsOf("?", url) # {}) <=> (params # << >>)
        /\ \A i \in PositionsOf("$count", url), j \in PositionsOf("?", url) : i < j

\* a count URL was built with two parameters
C17_Witness ==
    /\ pc = "built"
    /\ get_count_arg
    /\ endpoint = << "e" >>
    /\ params = << ParamFilter, ParamTop >>
    /\ url = base_url \o << "/", "e", "/", "$count", "?", "f", "=", "a", "+", "b",
                            "&", "%24", "top", "=", "1" >>

----------------------------------------------------------------------------
(* Properties of an instance in use, under Spec. *)

\* C18: on an instance used before as on a new one, a call starts with no request,
\* no page and no record of an earlier call, and ends as the server's answers to
\* its own requests say: it fails with FailedRequestError exactly when one of its
\* requests failed, with InvalidResponseError only on a response it was served,
\* and what it returns is the count of its count response or the concatenation of
\* the pages it was served, with no record of an earlier call.
C18_CallsAreIndependent ==
    /\ pc \in {"count_get", "count_parse"} =>
          /\ log = << url >>
          /\ served = << >>
          /\ records = << >>
          /\ total_records = -1
          /\ result = NoResult
    /\ pc \in {"count_get", "page_get"} /\ attempts = 0 => transport = NoTransport
    /\ pc = "done" =>
          /\ result.kind \in {"raised", "returned"}
          /\ result.error = "FailedRequestError" <=> transport.kind = "failed"
          /\ transport.kind = "failed" =>
                 attempts >= 1 /\ result = Raised("FailedRequestError", transport.cause)
          /\ result.error = "InvalidResponseError" =>
                 \/ count_body # << >>
                 \/ served # << >> /\ served[Len(served)].json = "invalid"
          /\ (result.kind = "returned" /\ op = "get_record_count") =>
                 count_body # << >> /\ result = CountOutcome(count_body[1])
          /\ (result.kind = "returned" /\ op = "get_records") =>
                 /\ served # << >>
                 /\ result = ReturnedRecords(Flatten(served))

\* a second or later call on the instance returned the one record it was served
C18_Witness ==
    /\ reused
    /\ pc = "done"
    /\ op = "get_records"
    /\ Len(served) = 1
    /\ result = ReturnedRecords(<< 1 >>)

\* C19: whatever calls were made, and however they ended, the stored base URL, the
\* effective timeout, the credentials and the mounted retry policy are those the
\* constructor set from its arguments.
C19_ConfigurationUnchanged ==
    Constructed =>
        /\ base_url = NewClient(args).base_url
        /\ timeout = NewClient(args).timeout
        /\ auth = args.auth
        /\ max_retries = NewClient(args).max_retries
        /\ mounted = NewClient(args).mounted

\* a second or later call failed on a client constructed with timeout 5 and no
\* retries
C19_Witness ==
    /\ reused
    /\ pc = "done"
    /\ result.kind = "raised"
    /\ args.timeout = 5
    /\ timeout = 5
    /\ args.retries = 0
    /\ mounted = [p \in {"http://", "https://"} |-> RetryStrategy(0)]
    /\ base_url = BaseUrl
    /\ auth = << "user", "pass" >>

\* C20: within an operation the requests go out one at a time.  While a request
\* is in flight it is the last one issued and every request before it has been
\* answered: the count request is the first and only one until its response has
\* been received and parsed, and the request for page k+1 is issued only after
\* page k has been received and parsed and carried a next link.
C20_OneRequestAtATime ==
    op # "none" =>
        /\ log # << >>
        /\ Len(log) <= Len(served) + 2
        /\ Len(log) >= 2 => (op = "get_records" /\ total_records >= 0)
        /\ pc \in {"count_get", "count_parse"} => (Len(log) = 1 /\ served = << >>)
        /\ pc \in {"page_get", "page_parse"} => Len(log) = Len(served) + 2
        /\ pc \in {"count_parse", "page_parse"} => transport.kind = "response"
        /\ \A k \in 1 .. Len(served) :
               k + 2 <= Len(log) => (PageOk(served[k]) /\ HasCursor(served[k]))

\* the request for the second page is in flight, the first page has been parsed
C20_Witness ==
    /\ op = "get_records"
    /\ pc = "page_get"
    /\ Len(log) = 3
    /\ Len(served) = 1
    /\ records = << 1, 2 >>

----------------------------------------------------------------------------
(* Properties of the errors and of the paginator, under Spec. *)

ClientErrorKinds == {"InvalidURLError", "FailedRequestError", "InvalidResponseError"}

\* C21: the three error kinds of the client are caught by a handler for
\* DyniteError, and a handler for one of them catches that kind and neither of the
\* other two; so whichever of them an operation raises, the umbrella handler and
\* the handler of its own kind catch it and the other two handlers do not.
C21_ThreeKindsUnderOneUmbrella ==
    /\ \A k \in ClientErrorKinds : Catches("DyniteError", k)
    /\ \A h \in ClientErrorKinds, k \in ClientErrorKinds : Catches(h, k) <=> h = k
    /\ (result.kind = "raised" /\ result.error \in ClientErrorKinds) =>
           /\ Catches("DyniteError", result.error)
           /\ \A h \in ClientErrorKinds : Catches(h, result.error) <=> h = result.error

\* a call failed with FailedRequestError: the umbrella handler catches it, the
\* handler for InvalidResponseError does not
C21_Witness ==
    /\ pc = "done"
    /\ result.kind = "raised"
    /\ result.error = "FailedRequestError"
    /\ Catches("DyniteError", result.error)
    /\ ~Catches("InvalidResponseError", result.error)
    /\ ~Catches("InvalidURLError", result.error)

\* every page served so far to the get_records in progress was parsed
PagesParsed ==
    /\ op = "get_records"
    /\ total_records >= 0
    /\ \A i \in 1 .. Len(served) : PageOk(served[i])

\* C22, as the specification states it: whenever a page holds the field
\* @odata.nextLink, the next request goes to exactly the field's value, and
\* get_records returns exactly when the last page served holds no such field.
C22_NextLinkFieldFollowed ==
    PagesParsed =>
        /\ \A i \in 1 .. Len(served) :
               served[i].link.present =>
                   (Len(log) >= i + 2 /\ log[i + 2] = served[i].link.val)
        /\ result.kind = "returned" <=>
               (served # << >> /\ ~served[Len(served)].link.present)

\* C22, amended: whenever a page holds a non-empty @odata.nextLink, the next
\* request goes to exactly the field's value, whatever the caller's params and
\* the base URL are; a page whose field is absent or empty is followed by no
\* request, and get_records returns the accumulated records exactly when the last
\* page served is such a page.
C22_NonEmptyNextLinkFollowed ==
    PagesParsed =>
        /\ \A i \in 1 .. Len(served) :
               IF served[i].link.present /\ served[i].link.val # << >>
               THEN Len(log) >= i + 2 /\ log[i + 2] = served[i].link.val
               ELSE Len(log) = i + 1
        /\ result.kind = "returned" <=>
               /\ served # << >>
               /\ (~served[Len(served)].link.present
                      \/ served[Len(served)].link.val = << >>)
        /\ result.kind = "returned" => result.records = records

\* a call with params followed a next link that leaves the base URL, then a page
\* with an empty next link ended it
C22_Witness ==
    /\ op = "get_records"
    /\ params # << >>
    /\ Len(served) = 2
    /\ served[1].link.val = << "https://", "other", "/", "e" >>
    /\ log[3] = << "https://", "other", "/", "e" >>
    /\ served[2].link.present
    /\ served[2].link.val = << >>
    /\ PageOk(served[2])
    /\ result.kind = "returned"

\* a count body of plain characters that is not a decimal integer
NonNumericBody(body) ==
    /\ \A i \in 1 .. Len(body) : body[i] \in {"0", "4", " ", "x", "-", "BOM"}
    /\ ~CleanLiteral(body)

NoCountEndpoint ==
    /\ op = "get_records"
    /\ Len(log) = 1
    /\ transport = Failed(404, "HTTPError")

C25_OnlyTwoErrorKindsReachCaller ==
    pc = "done" =>
        \/ result.kind = "returned"
        \/ /\ result.kind = "raised"
           /\ result.error \in {"FailedRequestError", "InvalidResponseError"}

\* C26: within a call every URL is handed to _get once, in the order count URL,
\* first page URL, next links, each answered before the next is handed over; when
\* a _get has failed, or a count body or a page could not be parsed, the call
\* has ended with that error and the failed request is the last one it issued.
C26_NoRetryAboveTransport ==
    op # "none" =>
        /\ op = "get_record_count" => Len(log) = 1
        /\ Len(served) + 1 <= Len(log) /\ Len(log) <= Len(served) + 2
        /\ \A k \in 1 .. Len(served) :
               k + 2 <= Len(log) => log[k + 2] = served[k].link.val
        /\ transport.kind = "failed" =>
               /\ pc = "done"
               /\ result = Raised("FailedRequestError", transport.cause)
               /\ Len(log) = IF total_records >= 0 THEN Len(served) + 2 ELSE 1
        /\ (count_body # << >> /\ result.kind = "raised") =>
               pc = "done" /\ Len(log) = 1
        /\ (served # << >> /\ ~PageOk(served[Len(served)])) =>
               /\ pc = "done"
               /\ result.kind = "raised"
               /\ Len(log) = Len(served) + 1

\* the request for the second page failed after the retries of the policy: three
\* URLs were handed over, the last one once
C26_Witness ==
    /\ op = "get_records"
    /\ pc = "done"
    /\ Len(log) = 3
    /\ Len(served) = 1
    /\ transport.kind = "failed"
    /\ transport.cause = "RetryError"
    /\ attempts = 2

\* C27: when the attempts of a _get so far, fewer than max_retries of them, were
\* all answered with a status of the forcelist and the next attempt is answered
\* with a 2xx status, the _get returns that response: the operation goes on to
\* parse it, and no error has been raised.
C27_SuccessAfterRetriesIsSuccess ==
    [][ (/\ pc \in {"count_get", "page_get"}
         /\ forcedOnly
         /\ attempts < max_retries
         /\ attempts' = attempts + 1
         /\ transport'.status >= 200 /\ transport'.status < 300)
        => /\ transport' = Delivered(transport'.status)
           /\ pc' = (IF pc = "count_get" THEN "count_parse" ELSE "page_parse")
           /\ result' = NoResult
           /\ UNCHANGED << url, log, records, served >> ]_vars

\* a page request was answered 200 at its third attempt
C27_Witness ==
    /\ pc = "page_parse"
    /\ max_retries = 3
    /\ attempts = 3
    /\ transport = Delivered(200)
    /\ result = NoResult

\* the get_records that has ended returned on a parsed page without a next link,
\* or failed on a failed request, on the count body or on a page it could not use
EndedProperly ==
    \/ /\ result.kind = "returned"
       /\ served # << >>
       /\ PageOk(served[Len(served)])
       /\ ~HasCursor(served[Len(served)])
    \/ /\ result.kind = "raised"
       /\ \/ transport.kind = "failed"
          \/ count_body # << >>
          \/ served # << >> /\ ~PageOk(served[Len(served)])

\* C28: when every request completes and the chain of next links the server
\* serves is finite, a get_records that has started eventually ends; it ends by
\* returning on the first parsed page without a next link or by failing on the
\* first failed request or unusable body, and never for another reason: every
\* parsed page with a next link is followed by a request, whatever the count and
\* the number of pages and records so far.
C28_GetRecordsTerminates ==
    /\ (op = "get_records" /\ pc # "done") ~> (pc = "done")
    /\ [](op = "get_records" /\ pc = "done" => EndedProperly)
    /\ [](PagesParsed /\ served # << >> /\ HasCursor(served[Len(served)])
              => pc \in {"page_get", "page_parse"} \/ transport.kind = "failed")

\* a get_records ended after two pages though the count said 0
C28_Witness ==
    /\ op = "get_records"
    /\ pc = "done"
    /\ total_records = 0
    /\ Len(served) = 2
    /\ result = ReturnedRecords(<< 1, 1, 2 >>)

\* C29: when get_records parses a page that is a JSON object without the value
\* field, the records accumulated so far stay as they are and no error is raised:
\* with a next link in the page the next request goes to it, without one the
\* accumulated records are returned.
C29_PageWithoutValueAddsNothing ==
    [][ (/\ pc = "page_parse"
         /\ Len(served') = Len(served) + 1
         /\ served'[Len(served')].json = "object"
         /\ ~served'[Len(served')].value.present)
        => LET page == served'[Len(served')]
           IN  /\ records' = records
               /\ IF page.link.present /\ page.link.val # << >>
                  THEN /\ pc' = "page_get"
                       /\ url' = page.link.val
                       /\ log' = Append(log, page.link.val)
                       /\ result' = NoResult
                  ELSE /\ pc' = "done"
                       /\ result' = ReturnedRecords(records)
                       /\ log' = log ]_vars

\* the second page had no value field: the record of the first page was returned
C29_Witness ==
    /\ op = "get_records"
    /\ pc = "done"
    /\ Len(served) = 2
    /\ served[1].value.items = << 1 >>
    /\ served[2].json = "object"
    /\ ~served[2].value.present
    /\ result = ReturnedRecords(<< 1 >>)

\* str.startswith(prefix) on token sequences
HasPrefix(s, prefix) ==
    Len(s) >= Len(prefix) /\ SubSeq(s, 1, Len(prefix)) = prefix

\* C30: every request a client issues, the count request, the first page
\* request and every later page request, goes to a URL that starts with the
\* client's stored base_url.
C30_EveryRequestUnderBaseUrl ==
    pc # "idle" => \A i \in 1..Len(log) : HasPrefix(log[i], base_url)

\* {base}/{endpoint}, then /$count for the count, then "?" and the form-encoded
\* parameters when there are parameters
RequestUrl(e, ps, count) ==
    base_url \o << "/" >> \o WithoutLeadingSlashes(e)
        \o (IF count THEN << "/", "$count" >> ELSE << >>)
        \o (IF ps # << >> THEN << "?" >> \o FormEncodeFrom(ps, 1) ELSE << >>)

\* C31: the URLs handed to the transport by get_record_count(endpoint, params)
\* are one URL, {base}/{endpoint}/$count followed by the query string when
\* params is not empty, until the call is over; get_records hands the count URL
\* of its endpoint and params first, and once the count is parsed its second URL
\* is {base}/{endpoint} with the same query string.
C31_CountAndFirstPageFromSameArguments ==
    /\ (op = "get_record_count" /\ pc # "idle")
           => /\ log = << RequestUrl(endpoint, params, TRUE) >>
              /\ pc \in {"count_get", "count_parse", "done"}
    /\ (op = "get_records" /\ pc # "idle")
           => /\ Len(log) >= 1
              /\ log[1] = RequestUrl(endpoint, params, TRUE)
              /\ (pc \in {"page_get", "page_parse"} \/ served # << >>) => Len(log) >= 2
              /\ Len(log) >= 2 => log[2] = RequestUrl(endpoint, params, FALSE)

\* get_record_count returned a count for an endpoint written with a slash and
\* one parameter
C31_Witness ==
    /\ op = "get_record_count"
    /\ pc = "done"
    /\ result = ReturnedCount(4)
    /\ endpoint = << "/", "e" >>
    /\ params # << >>
    /\ log = << base_url \o << "/", "e", "/", "$count", "?", "%24", "top", "=", "1" >> >>

\* C32: every attempt of a GET, for the count and for every page, in the first
\* call of the instance and in every later one, is made with the timeout fixed
\* at construction: the constructor's argument when it was positive, 30
\* otherwise.
C32_EveryGetUsesEffectiveTimeout ==
    [][ attempts' = attempts + 1
        => /\ get_timeout_arg' = IF args.timeout > 0 THEN args.timeout ELSE 30
           /\ args' = args ]_vars

\* the request of a second page, in a later call of an instance constructed with
\* timeout 5, was answered
C32_Witness ==
    /\ reused
    /\ op = "get_records"
    /\ pc = "page_parse"
    /\ Len(served) = 1
    /\ Len(log) = 3
    /\ args.timeout = 5
    /\ get_timeout_arg = 5

\* the latest page was parsed up to the extraction of its next link
LinkExtracted ==
    /\ op = "get_records"
    /\ served # << >>
    /\ PageOk(served[Len(served)])

====
